---- MODULE Spec2Model ----
(***************************************************************************)
(* A model of the Cleaner repository: the duplicate-detection pipeline of  *)
(* analysis.py (FilesAnalyzer), the arbitration parser of classificator.py *)
(* (LLMClassifier), and the quarantine journal of logger.py, executor.py,  *)
(* recuperator.py and main.py.                                             *)
(***************************************************************************)
EXTENDS Integers, Sequences, FiniteSets, TLC

VARIABLES
    disk,          \* the file system: path -> file record, or NoFile
    pc,            \* position of the operation under way
    args,          \* the list of paths handed to _calculate_accuracy_fuzzy
    accuracy,      \* the value _calculate_accuracy_fuzzy returned
    hash_cache,    \* FilesAnalyzer.hash_cache: path -> full digest
    dup_confirmed, \* find_dup's result, the 'confirmed' list of groups
    dup_suspect,   \* find_dup's result, the 'suspect' list of groups
    response,      \* what LLMClassifier.consult returns, as its lines
    decisions_history, \* LLMClassifier.decisions_history
    result,        \* what the classifier's analyze_* call returned
    mode,          \* SmartCleaner.mode
    llm_available, \* SmartCleaner.llm_available
    todo,          \* the files delete_batch has still to delete
    resume,        \* the step of the cleanup that follows the batch
    unused,        \* deep_cleanup's list of unused files, still to handle
    actions,       \* CleanerLogger.log_data['actions']
    statistics,    \* Executor.statistics
    log_file,      \* the journal file CleanerLogger.finalize writes
    llm_log,       \* the file LLMClassifier.save_history writes
    scope,         \* where main is in its try statement: "try", "except"
                   \* (the KeyboardInterrupt handler), "none" outside of it
    exit_status,   \* the exit status of the process, once it has ended
    log_data,      \* Recuperator.log_data['actions']
    indices,       \* interactive_menu: the indices the user selected
    recover,       \* interactive_menu: the indices still to recover
    purge,         \* interactive_menu: the items still to delete
    last_call,     \* the last call of recover_file, delete_file or
                   \* delete_permanently
    sessions       \* how many times the recovery menu was opened

scoreVars == <<args, accuracy>>
dupVars == <<hash_cache, dup_confirmed, dup_suspect>>
llmVars == <<response, decisions_history, result>>
runVars == <<mode, llm_available, todo, resume, unused, actions, statistics,
             log_file, llm_log, scope, exit_status>>
recVars == <<log_data, indices, recover, purge, last_call, sessions>>
vars == <<disk, pc, scoreVars, dupVars, llmVars, runVars, recVars>>

\* what disk holds at a path where there is no file
NoFile ==
    [exists |-> FALSE, size |-> 0, head |-> "", tail |-> "", mtime |-> 0,
     atime |-> 0, readable |-> FALSE, lasts |-> FALSE]

\* accuracy before _calculate_accuracy_fuzzy has returned
NoScore == <<>>

\* no call of the classifier has returned
NoResult == [status |-> "none", flag |-> FALSE, justification |-> <<>>]

\* Executor.statistics after __init__; space_freed_mb is held in bytes
NoStatistics == [files_deleted |-> 0, space_freed_mb |-> 0, errors |-> <<>>]

\* the journal file before finalize has written it; writes counts the
\* times CleanerLogger.finalize of the process has written it, failed tells
\* that a write of it raised
NoJournal ==
    [written |-> FALSE, actions |-> <<>>, statistics |-> NoStatistics,
     writes |-> 0, failed |-> FALSE]

\* no call of recover_file, delete_file or delete_permanently yet
NoCall == [op |-> "none", index |-> 0, found |-> FALSE, printed |-> ""]

(***************************************************************************)
(* Python floats.  A non-negative double is held exactly, as the integer   *)
(* count of units of 2^-64 written in three limbs of 24 bits:              *)
(* <<a, b, c>> is (a * 2^48 + b * 2^24 + c) * 2^-64.  Every operation      *)
(* computes the exact result and rounds it to 53 significant bits, ties to *)
(* even, as IEEE-754 binary64 does.  The values of the model lie in        *)
(* [2^-12, 2^7) or are 0, where a double is a multiple of 2^-64.           *)
(***************************************************************************)
Limb == 2^24

MantissaBits == 53

FZero == <<0, 0, 0>>

\* int -> float, for a small non-negative integer n (n * 2^64 units)
FromInt(n) == <<n * 65536, 0, 0>>

\* the number of bits of the natural n < 2^31, by halving the width
BitLen(n) ==
    LET b2(k)  == IF k < 2 THEN k ELSE 2
        b4(k)  == IF k < 4 THEN b2(k) ELSE 2 + b2(k \div 4)
        b8(k)  == IF k < 16 THEN b4(k) ELSE 4 + b4(k \div 16)
        b16(k) == IF k < 256 THEN b8(k) ELSE 8 + b8(k \div 256)
    IN  IF n < 65536 THEN b16(n) ELSE 16 + b16(n \div 65536)

FBitLen(x) ==
    IF x[1] > 0 THEN 48 + BitLen(x[1])
    ELSE IF x[2] > 0 THEN 24 + BitLen(x[2])
    ELSE BitLen(x[3])

\* carry propagation of limbs that may have reached 2^24
FCarry(x) ==
    LET c3 == x[3] % Limb
        k2 == x[2] + (x[3] \div Limb)
        c2 == k2 % Limb
        c1 == x[1] + (k2 \div Limb)
    IN  <<c1, c2, c3>>

\* Round the exact value x + (a fraction in (0,1) of a unit when sticky) to
\* 53 significant bits, ties to even.
FRound(x, above_half, exactly_half, sticky) ==
    LET k == FBitLen(x) - MantissaBits
    IN  IF k < 0 THEN x
        ELSE IF k = 0
        THEN IF above_half \/ (exactly_half /\ x[3] % 2 = 1)
             THEN FCarry(<<x[1], x[2], x[3] + 1>>)
             ELSE x
        ELSE LET p    == 2^k
                 q    == x[3] \div p
                 r    == x[3] % p
                 half == p \div 2
                 up   == \/ r > half
                         \/ r = half /\ (sticky \/ q % 2 = 1)
             IN  FCarry(<<x[1], x[2], (q + (IF up THEN 1 ELSE 0)) * p>>)

\* x + y
FAdd(x, y) ==
    FRound(FCarry(<<x[1] + y[1], x[2] + y[2], x[3] + y[3]>>), FALSE, FALSE, FALSE)

\* x / n for an integer 1 <= n <= 127
FDiv(x, n) ==
    LET q1 == x[1] \div n
        r1 == x[1] % n
        q2 == (r1 * Limb + x[2]) \div n
        r2 == (r1 * Limb + x[2]) % n
        q3 == (r2 * Limb + x[3]) \div n
        r3 == (r2 * Limb + x[3]) % n
    IN  FRound(<<q1, q2, q3>>, 2 * r3 > n, 2 * r3 = n, r3 > 0)

\* x >= y
FGe(x, y) ==
    \/ x[1] > y[1]
    \/ x[1] = y[1] /\ x[2] > y[2]
    \/ x[1] = y[1] /\ x[2] = y[2] /\ x[3] >= y[3]

\* the literals 0.1 ... 0.7: the doubles nearest to n / 10
Tenth == [n \in 1..7 |-> FDiv(FromInt(n), 10)]

(***************************************************************************)
(* Strings are sequences of one-character strings.                         *)
(***************************************************************************)

IsDigit(c) == c \in {"0", "1", "2", "3", "4", "5", "6", "7", "8", "9"}

IsSpace(c) == c = " "

\* str.lower(), on the letters the model's names use
Lower(s) == [i \in 1..Len(s) |-> IF s[i] = "R" THEN "r" ELSE s[i]]

\* needle in hay (Python's substring test)
Contains(hay, needle) ==
    \E i \in 0..(Len(hay) - Len(needle)) :
        \A k \in 1..Len(needle) : hay[i + k] = needle[k]

\* The index of the ")" ending a match of \(\d+\) that starts at i, or 0.
ParenMatchEnd(s, i) ==
    LET ends == {j \in (i + 2)..Len(s) :
                    /\ s[j] = ")"
                    /\ \A k \in (i + 1)..(j - 1) : IsDigit(s[k])}
    IN  IF s[i] = "(" /\ ends # {} THEN CHOOSE j \in ends : TRUE ELSE 0

\* Whether \s+\d+$ matches at i: spaces, then digits up to the end.
TrailMatch(s, i) ==
    \E j \in (i + 1)..Len(s) :
        /\ \A k \in i..(j - 1) : IsSpace(s[k])
        /\ \A k \in j..Len(s) : IsDigit(s[k])

RECURSIVE ReSubFrom(_, _)
ReSubFrom(s, i) ==
    IF i > Len(s) THEN <<>>
    ELSE IF ParenMatchEnd(s, i) > 0 THEN ReSubFrom(s, ParenMatchEnd(s, i) + 1)
    ELSE IF TrailMatch(s, i) THEN <<>>
    ELSE <<s[i]>> \o ReSubFrom(s, i + 1)

\* re.sub(r'\(\d+\)|\s+\d+$', '', s)
ReSub(s) == ReSubFrom(s, 1)

\* set(s.split()): the maximal runs of non-space characters
WordEnd(s, i) ==
    CHOOSE j \in i..Len(s) :
        /\ \A k \in i..j : ~IsSpace(s[k])
        /\ (j = Len(s) \/ IsSpace(s[j + 1]))

Words(s) ==
    {SubSeq(s, i, WordEnd(s, i)) :
        i \in {k \in 1..Len(s) : ~IsSpace(s[k]) /\ (k = 1 \/ IsSpace(s[k - 1]))}}

\* FilesAnalyzer._name_similarity
name_similarity(s1, s2) ==
    IF s1 = <<>> \/ s2 = <<>> THEN FZero
    ELSE LET words1 == Words(ReSub(s1))
             words2 == Words(ReSub(s2))
         IN  IF words1 = {} \/ words2 = {} THEN FZero
             ELSE FDiv(FromInt(Cardinality(words1 \cap words2)),
                       Cardinality(words1 \cup words2))

(***************************************************************************)
(* Files.  A path is a record [anchor, dir, stem, suffix]; disk[p] is      *)
(* NoFile or a record [exists, size, head, tail, mtime, readable, lasts]:   *)
(* the byte size, the first block of 8192 bytes, the rest of the content,  *)
(* st_mtime in seconds, whether open() succeeds, and whether the file is   *)
(* still there once find_dup has walked the directories and taken the fast *)
(* digests of its size bucket (a file that does not last is deleted by     *)
(* another program while find_dup runs).                                   *)
(***************************************************************************)
SecondsPerDay == 86400

Range(f) == {f[x] : x \in DOMAIN f}

Exists(p) == disk[p].exists

\* file.stat() raises when the file is gone
StatRaises(p) == ~Exists(p)

\* open(file, 'rb') raises when the file is gone or may not be read
OpenRaises(p) == ~Exists(p) \/ ~disk[p].readable

\* file.stat() and open(file, 'rb') after the fast-digest pass of find_dup
StatRaisesLater(p) == StatRaises(p) \/ ~disk[p].lasts

OpenRaisesLater(p) == OpenRaises(p) \/ ~disk[p].lasts

\* FilesAnalyzer.fast_hash: the digest of the first block, where it returns
fast_hash(p) == disk[p].head

Abs(x) == IF x < 0 THEN -x ELSE x

\* NameScore with the substring test made in one direction only
NameScoreOneWay(score, file1, file2) ==
    LET name1 == Lower(file1.stem)
        name2 == Lower(file2.stem)
    IN  IF name1 = name2 THEN FAdd(score, Tenth[4])
        ELSE IF Contains(name2, name1) THEN FAdd(score, Tenth[3])
        ELSE IF FGe(name_similarity(name1, name2), Tenth[7])
        THEN FAdd(score, Tenth[2])
        ELSE score

\* NameScore with every name signal that applies added (if for elif)
NameScoreCumulative(score, file1, file2) ==
    LET name1 == Lower(file1.stem)
        name2 == Lower(file2.stem)
        s1 == IF name1 = name2 THEN FAdd(score, Tenth[4]) ELSE score
        s2 == IF Contains(name2, name1) \/ Contains(name1, name2)
              THEN FAdd(s1, Tenth[3]) ELSE s1
    IN  IF FGe(name_similarity(name1, name2), Tenth[7])
        THEN FAdd(s2, Tenth[2]) ELSE s2

\* NameScore with the stems compared after the numeric suffixes are removed
NameScoreStripped(score, file1, file2) ==
    LET name1 == Lower(file1.stem)
        name2 == Lower(file2.stem)
    IN  IF Words(ReSub(name1)) = Words(ReSub(name2)) THEN FAdd(score, Tenth[4])
        ELSE IF Contains(name2, name1) \/ Contains(name1, name2)
        THEN FAdd(score, Tenth[3])
        ELSE IF FGe(name_similarity(name1, name2), Tenth[7])
        THEN FAdd(score, Tenth[2])
        ELSE score

\* the name signal of one pair
NameScore(score, file1, file2) ==
    LET name1 == Lower(file1.stem)
        name2 == Lower(file2.stem)
    IN  IF name1 = name2 THEN FAdd(score, Tenth[4])
        ELSE IF Contains(name2, name1) \/ Contains(name1, name2)
        THEN FAdd(score, Tenth[3])
        ELSE IF FGe(name_similarity(name1, name2), Tenth[7])
        THEN FAdd(score, Tenth[2])
        ELSE score

\* the modification-time signal of one pair
TimeScore(score, file1, file2) ==
    IF StatRaisesLater(file1) \/ StatRaisesLater(file2) THEN score
    ELSE LET dif == Abs(disk[file1].mtime - disk[file2].mtime)
         IN  IF dif < SecondsPerDay THEN FAdd(score, Tenth[2])
             ELSE IF dif < 7 * SecondsPerDay THEN FAdd(score, Tenth[1])
             ELSE score

\* the fast-digest signal of one pair
FastScore(score, file1, file2) ==
    IF OpenRaisesLater(file1) \/ OpenRaisesLater(file2) THEN score
    ELSE IF fast_hash(file1) = fast_hash(file2) THEN FAdd(score, Tenth[2])
    ELSE score

\* the score of one pair: the body of the inner loop
PairScore(file1, file2) ==
    LET ext == IF file1.suffix = file2.suffix THEN FAdd(FZero, Tenth[2]) ELSE FZero
    IN  FastScore(TimeScore(NameScore(ext, file1, file2), file1, file2), file1, file2)

\* total_acc after the pairs (i, j), (i, j+1), ..., (n-1, n), visited in the
\* order of the two loops, starting from the total acc
RECURSIVE TotalAcc(_, _, _, _)
TotalAcc(files, i, j, acc) ==
    IF i >= Len(files) THEN acc
    ELSE IF j > Len(files) THEN TotalAcc(files, i + 1, i + 2, acc)
    ELSE TotalAcc(files, i, j + 1, FAdd(acc, PairScore(files[i], files[j])))

\* FilesAnalyzer._calculate_accuracy_fuzzy
calculate_accuracy_fuzzy(files) ==
    IF Len(files) < 2 THEN FZero
    ELSE LET comparations == (Len(files) * (Len(files) - 1)) \div 2
         IN  FDiv(TotalAcc(files, 1, 2, FZero), comparations)

(***************************************************************************)
(* Config.  A directory is a record [anchor, dir], dir being the sequence  *)
(* of its components below the anchor.  The home directory is the anchor   *)
(* C: of the model.  TEMP and TMP name the same directory, as they do in a *)
(* Windows user environment.  Downloads\Program Files is a link to         *)
(* C:\Program Files: Path.resolve() follows it.                            *)
(***************************************************************************)
Dir(anchor, dir) == [anchor |-> anchor, dir |-> dir]

WHITELISTED_DIRS ==
    { Dir("C:", <<"Windows">>),
      Dir("C:", <<"Program Files (x86)">>),
      Dir("C:", <<"Program Files">>),
      Dir("C:", <<"AppData", "Roaming">>),
      Dir("C:", <<"AppData", "Local", "Packages">>),
      Dir("C:", <<"3DP">>),
      Dir("C:", <<"AMD">>),
      Dir("C:", <<"Autodesk">>),
      Dir("C:", <<"PerfLogs">>) }

TARGET_DIRS ==
    << Dir("C:", <<"AppData", "Local", "Temp">>),
       Dir("C:", <<"AppData", "Local", "Temp">>),
       Dir("C:", <<"Downloads">>),
       Dir("C:", <<"Documents">>),
       Dir("C:", <<"Desktop">>) >>

MIN_DUP_FILE_SIZE_MB == 50

ACCURACY_DUP == Tenth[6]

\* 1024 * 1024
BytesPerMB == 1048576

IsPrefix(s, t) == Len(s) <= Len(t) /\ \A i \in 1..Len(s) : s[i] = t[i]

\* Path.resolve(), on the directory of a path
Resolve(dir) ==
    LET link   == <<"Downloads", "Program Files">>
        target == <<"Program Files">>
    IN  IF IsPrefix(link, dir)
        THEN target \o SubSeq(dir, Len(link) + 1, Len(dir))
        ELSE dir

\* Config.is_in_whitelist
is_in_whitelist(p) ==
    \E protected_dir \in WHITELISTED_DIRS :
        /\ protected_dir.anchor = p.anchor
        /\ IsPrefix(Resolve(protected_dir.dir), Resolve(p.dir))

(***************************************************************************)
(* FilesAnalyzer.find_dup.  The digest of a block of bytes is the block    *)
(* itself (MD5 without collisions): the fast digest of a file is its first *)
(* block, the full digest is <<head, tail>>.                               *)
(***************************************************************************)
\* the sequence s without the later copies of its elements
RECURSIVE Dedup(_)
Dedup(s) ==
    IF s = <<>> THEN <<>>
    ELSE LET front == Dedup(SubSeq(s, 1, Len(s) - 1))
             last  == s[Len(s)]
         IN  IF last \in Range(front) THEN front ELSE Append(front, last)

\* the concatenation of the sequences of the sequence ss
RECURSIVE Flatten(_)
Flatten(ss) == IF ss = <<>> THEN <<>> ELSE Head(ss) \o Flatten(Tail(ss))

\* dir_base.rglob('*'), kept to the files: the files below dir_base, in the
\* order listing gives
Rglob(dir_base, listing) ==
    SelectSeq(listing, LAMBDA p :
        /\ p.anchor = dir_base.anchor
        /\ IsPrefix(dir_base.dir, p.dir)
        /\ Exists(p))

\* Phase 1: the files appended to by_size, in the order they are appended
Scanned(directories, listing) ==
    SelectSeq(Flatten([i \in 1..Len(directories) |-> Rglob(directories[i], listing)]),
              LAMBDA p : ~is_in_whitelist(p) /\ disk[p].size > 0)

\* the keys of by_size, in insertion order, and the list of one key
SizeKeys(scanned) == Dedup([i \in 1..Len(scanned) |-> disk[scanned[i]].size])

\* length_mb <= Config.MIN_DUP_FILE_SIZE_MB, for length_mb = length / 2^20
IsSmall(length) == length <= MIN_DUP_FILE_SIZE_MB * BytesPerMB

\* a bucket per size class (up to 50 MB, above 50 MB) and not per size
BySizeClass(scanned, length) ==
    SelectSeq(scanned, LAMBDA p : IsSmall(disk[p].size) = IsSmall(length))

BySize(scanned, length) == SelectSeq(scanned, LAMBDA p : disk[p].size = length)

\* FilesAnalyzer.full_hash, where it returns
full_hash(p) ==
    IF p \in DOMAIN hash_cache THEN hash_cache[p]
    ELSE <<disk[p].head, disk[p].tail>>

\* full_hash raises when the file is not cached and cannot be opened
FullHashRaises(p) == p \notin DOMAIN hash_cache /\ OpenRaisesLater(p)

Group(files, length, acc, type) ==
    [files |-> files, length |-> length, accuracy |-> acc, type |-> type]

\* confirmation by the fast digest alone
ConfirmedGroupsFast(files, length) ==
    LET hashed  == SelectSeq(files, LAMBDA p : ~FullHashRaises(p))
        digests == Dedup([i \in 1..Len(hashed) |-> fast_hash(hashed[i])])
        groups  == [i \in 1..Len(digests) |->
                       Group(SelectSeq(hashed, LAMBDA p : fast_hash(p) = digests[i]),
                             length, FromInt(1), "confirmed")]
    IN  SelectSeq(groups, LAMBDA g : Len(g.files) > 1)

\* confirmation without the test len(list_files) > 1
ConfirmedGroupsWithSingletons(files, length) ==
    LET hashed  == SelectSeq(files, LAMBDA p : ~FullHashRaises(p))
        digests == Dedup([i \in 1..Len(hashed) |-> full_hash(hashed[i])])
    IN  [i \in 1..Len(digests) |->
            Group(SelectSeq(hashed, LAMBDA p : full_hash(p) = digests[i]),
                  length, FromInt(1), "confirmed")]

\* the confirmed groups of a list of files: the files are full-hashed and
\* each digest shared by more than one file gives a group (lines 77-93 and
\* 118-134)
ConfirmedGroups(files, length) ==
    LET hashed  == SelectSeq(files, LAMBDA p : ~FullHashRaises(p))
        digests == Dedup([i \in 1..Len(hashed) |-> full_hash(hashed[i])])
        groups  == [i \in 1..Len(digests) |->
                       Group(SelectSeq(hashed, LAMBDA p : full_hash(p) = digests[i]),
                             length, FromInt(1), "confirmed")]
    IN  SelectSeq(groups, LAMBDA g : Len(g.files) > 1)

\* the fast-digest clusters of a bucket of large files with 2 files or more
Clusters(files) ==
    LET hashed  == SelectSeq(files, LAMBDA p : ~OpenRaises(p))
        digests == Dedup([i \in 1..Len(hashed) |-> fast_hash(hashed[i])])
        lists   == [i \in 1..Len(digests) |->
                       SelectSeq(hashed, LAMBDA p : fast_hash(p) = digests[i])]
    IN  SelectSeq(lists, LAMBDA candidates : Len(candidates) >= 2)

\* every cluster goes to confirmation, whatever its score
BucketConfirmedAnyScore(files, length) ==
    IF Len(files) < 2 THEN <<>>
    ELSE IF IsSmall(length) THEN ConfirmedGroups(files, length)
    ELSE LET clusters == Clusters(files)
         IN  Flatten([i \in 1..Len(clusters) |->
                 ConfirmedGroups(clusters[i], length)])

\* what one bucket appends to dup_confirmed
BucketConfirmed(files, length) ==
    IF Len(files) < 2 THEN <<>>
    ELSE IF IsSmall(length) THEN ConfirmedGroups(files, length)
    ELSE LET clusters == Clusters(files)
         IN  Flatten([i \in 1..Len(clusters) |->
                 IF FGe(calculate_accuracy_fuzzy(clusters[i]), ACCURACY_DUP)
                 THEN ConfirmedGroups(clusters[i], length)
                 ELSE <<>>])

\* clusters scoring below the threshold are dropped
BucketSuspectNone(files, length) == <<>>

\* what one bucket appends to dup_suspect
BucketSuspect(files, length) ==
    IF Len(files) < 2 \/ IsSmall(length) THEN <<>>
    ELSE LET clusters == Clusters(files)
         IN  Flatten([i \in 1..Len(clusters) |->
                 LET acc == calculate_accuracy_fuzzy(clusters[i])
                 IN  IF FGe(acc, ACCURACY_DUP) THEN <<>>
                     ELSE <<Group(clusters[i], length, acc, "suspect")>>])

\* find_dup(directories): its two lists and the cache it leaves
FindDupConfirmed(directories, listing) ==
    LET scanned == Scanned(directories, listing)
        keys    == SizeKeys(scanned)
    IN  Flatten([i \in 1..Len(keys) |->
            BucketConfirmed(BySize(scanned, keys[i]), keys[i])])

FindDupSuspect(directories, listing) ==
    LET scanned == Scanned(directories, listing)
        keys    == SizeKeys(scanned)
    IN  Flatten([i \in 1..Len(keys) |->
            BucketSuspect(BySize(scanned, keys[i]), keys[i])])

FindDupCache(directories, listing) ==
    LET scanned == Scanned(directories, listing)
        \* the files find_dup hands to full_hash
        full_hashed ==
            UNION {
                LET files == BySize(scanned, length)
                IN  IF Len(files) < 2 THEN {}
                    ELSE IF IsSmall(length) THEN Range(files)
                    ELSE UNION {Range(c) : c \in
                             {c \in Range(Clusters(files)) :
                                 FGe(calculate_accuracy_fuzzy(c), ACCURACY_DUP)}}
                : length \in Range(SizeKeys(scanned))}
        hashed == {p \in full_hashed : ~FullHashRaises(p)}
    IN  [p \in hashed \cup DOMAIN hash_cache |-> full_hash(p)]

(***************************************************************************)
(* LLMClassifier.  A response is the sequence of its lines, a line the     *)
(* sequence of its characters.                                             *)
(***************************************************************************)
UpperChar(c) ==
    LET lower == <<"a", "b", "c", "d", "e", "f", "g", "h", "i", "j", "k", "l", "m",
                   "n", "o", "p", "q", "r", "s", "t", "u", "v", "w", "x", "y", "z">>
        upper == <<"A", "B", "C", "D", "E", "F", "G", "H", "I", "J", "K", "L", "M",
                   "N", "O", "P", "Q", "R", "S", "T", "U", "V", "W", "X", "Y", "Z">>
    IN  IF \E i \in 1..Len(lower) : lower[i] = c
        THEN upper[CHOOSE i \in 1..Len(lower) : lower[i] = c]
        ELSE c

\* str.upper
Upper(s) == [i \in 1..Len(s) |-> UpperChar(s[i])]

\* '\n'.join(lines): the response as one string
RECURSIVE Join(_)
Join(lines) ==
    IF Len(lines) = 1 THEN lines[1]
    ELSE Join(SubSeq(lines, 1, Len(lines) - 1)) \o <<"\n">> \o lines[Len(lines)]

\* line.split(':', 1)[1], for a line with a colon
AfterColon(line) ==
    LET i == CHOOSE k \in 1..Len(line) :
                 line[k] = ":" /\ \A j \in 1..(k - 1) : line[j] # ":"
    IN  SubSeq(line, i + 1, Len(line))

\* str.strip
Strip(s) ==
    LET inked == {i \in 1..Len(s) : ~IsSpace(s[i])}
    IN  IF inked = {} THEN <<>>
        ELSE SubSeq(s, CHOOSE i \in inked : \A j \in inked : i <= j,
                       CHOOSE i \in inked : \A j \in inked : i >= j)

\* s.split()[0], for a stripped s that is not empty
FirstWord(s) == SubSeq(s, 1, WordEnd(s, 1))

\* the texts the parser looks for
Mark ==
    [ decision_yes |->
          <<"D", "E", "C", "I", "S", "I", "O", "N", ":", " ", "Y", "E", "S">>,
      justification |->
          <<"J", "U", "S", "T", "I", "F", "I", "C", "A", "T", "I", "O", "N", ":">>,
      risk |->
          <<"R", "I", "S", "K", ":">>,
      safety |->
          <<"S", "A", "F", "E", "T", "Y", ":">>,
      high |->
          <<"H", "I", "G", "H">>,
      dangerous |->
          <<"D", "A", "N", "G", "E", "R", "O", "U", "S">> ]

\* risk = "MEDIUM", safety = "CAUTION"
Default ==
    [ risk |->
          <<"M", "E", "D", "I", "U", "M">>,
      safety |->
          <<"C", "A", "U", "T", "I", "O", "N">> ]

\* a parser that takes every response without 'DECISION: NO' for a yes
DecisionUnlessNo(lines) ==
    ~Contains(Upper(Join(lines)),
              <<"D", "E", "C", "I", "S", "I", "O", "N", ":", " ", "N", "O">>)

\* "DECISION: YES" in response.upper()
DecisionYes(lines) == Contains(Upper(Join(lines)), Mark.decision_yes)

\* response[:200]
Leading(lines) ==
    LET text == Join(lines)
    IN  SubSeq(text, 1, IF Len(text) < 200 THEN Len(text) ELSE 200)

\* analyze_suspect_duplicate: the first line holding JUSTIFICATION:, if any
FirstJustification(lines) ==
    LET hits == {i \in 1..Len(lines) : Contains(Upper(lines[i]), Mark.justification)}
    IN  IF hits = {} THEN <<>>
        ELSE Strip(AfterColon(lines[CHOOSE i \in hits : \A j \in hits : i <= j]))

Returned(flag, justification) ==
    [status |-> "returned", flag |-> flag, justification |-> justification]

Raised == [status |-> "raised", flag |-> FALSE, justification |-> <<>>]

\* the parsing loop of analyze_old_file and analyze_process over the lines
\* from i on: the justification and the level (risk, safety) it ends with,
\* or the IndexError of split()[0] on a field with nothing after its colon
RECURSIVE ParseFields(_, _, _, _, _)
ParseFields(lines, i, mark, justification, level) ==
    IF i > Len(lines)
    THEN [raised |-> FALSE, justification |-> justification, level |-> level]
    ELSE IF Contains(Upper(lines[i]), Mark.justification)
    THEN ParseFields(lines, i + 1, mark, Strip(AfterColon(lines[i])), level)
    ELSE IF Contains(Upper(lines[i]), mark)
    THEN LET value == Strip(AfterColon(lines[i]))
         IN  IF value = <<>>
             THEN [raised |-> TRUE, justification |-> justification, level |-> level]
             ELSE ParseFields(lines, i + 1, mark, justification, FirstWord(value))
    ELSE ParseFields(lines, i + 1, mark, justification, level)

\* LLMClassifier.analyze_old_file(file, days_unused) when consult returns
\* lines: what it returns or raises, and what it appends to the history
analyze_old_file(file, days_unused, lines) ==
    IF StatRaises(file)
    THEN [result |-> Returned(FALSE, <<"Error accessing file">>), history |-> <<>>]
    ELSE LET parsed == ParseFields(lines, 1, Mark.risk, <<>>, Default.risk)
             high   == Contains(Upper(parsed.level), Mark.high)
             should_delete == DecisionYes(lines) /\ ~high
             justification ==
                 IF high
                 THEN parsed.justification \o
                          <<" [HIGH RISK - requires manual confirmation]">>
                 ELSE parsed.justification
         IN  IF parsed.raised
             THEN [result |-> Raised, history |-> <<>>]
             ELSE [result |-> Returned(should_delete, justification),
                   history |-> <<[type |-> "old_file", file |-> file,
                                  days_unused |-> days_unused,
                                  decision |-> should_delete,
                                  risk |-> parsed.level,
                                  justification |-> justification]>>]

(***************************************************************************)
(* The files of the model.                                                 *)
(***************************************************************************)
Path(anchor, dir, stem, suffix) ==
    [anchor |-> anchor, dir |-> dir, stem |-> stem, suffix |-> suffix]

File(size, head, tail, mtime, readable) ==
    [exists |-> TRUE, size |-> size, head |-> head, tail |-> tail,
     mtime |-> mtime, atime |-> mtime, readable |-> readable, lasts |-> TRUE]

\* the stems of the file names of the model
Stem ==
    [ report |->
          <<"r", "e", "p", "o", "r", "t">>,
      report_cap |->
          <<"R", "e", "p", "o", "r", "t">>,
      report_1 |->
          <<"r", "e", "p", "o", "r", "t", " ", "(", "1", ")">>,
      report_2 |->
          <<"r", "e", "p", "o", "r", "t", " ", "(", "2", ")">>,
      notes |->
          <<"n", "o", "t", "e", "s">> ]

\* report.docx, report (1).docx, report (2).docx, Report.docx, notes.txt
ScorePaths ==
    { Path("C:", <<"Downloads">>, Stem.report, ".docx"),
      Path("C:", <<"Downloads">>, Stem.report_1, ".docx"),
      Path("C:", <<"Downloads">>, Stem.report_2, ".docx"),
      Path("C:", <<"Desktop">>, Stem.report_cap, ".docx"),
      Path("C:", <<"Downloads">>, Stem.notes, ".txt") }

\* modified now, 2 hours, 3 days and 40 days later; two first blocks
ScoreFiles ==
    { File(10, "h1", "", 0, TRUE),
      File(10, "h1", "", 7200, TRUE),
      File(10, "h2", "", 3 * SecondsPerDay, TRUE),
      File(10, "h1", "", 40 * SecondsPerDay, TRUE) }

\* the longest list handed to _calculate_accuracy_fuzzy
MaxArgs == 3

(***************************************************************************)
(* SpecScore: _calculate_accuracy_fuzzy called on any list of at most      *)
(* MaxArgs paths, each an existing file or a file that is gone.            *)
(***************************************************************************)
\* the variables of the scorer and of find_dup before they are used
ScoreIdle == args = <<>> /\ accuracy = NoScore
DupIdle == hash_cache = <<>> /\ dup_confirmed = <<>> /\ dup_suspect = <<>>
LLMIdle == response = <<>> /\ decisions_history = <<>> /\ result = NoResult

RunIdle ==
    /\ mode = "general" /\ llm_available = FALSE
    /\ todo = <<>> /\ resume = "" /\ unused = <<>>
    /\ actions = <<>> /\ statistics = NoStatistics
    /\ log_file = NoJournal /\ llm_log = <<>>
    /\ scope = "none" /\ exit_status = 0

RecIdle ==
    /\ log_data = <<>> /\ indices = <<>> /\ recover = <<>> /\ purge = <<>>
    /\ last_call = NoCall /\ sessions = 0

InitScore ==
    /\ pc = "call"
    /\ accuracy = NoScore
    /\ DupIdle
    /\ LLMIdle
    /\ RunIdle
    /\ RecIdle
    /\ args \in UNION {[1..n -> ScorePaths] : n \in 0..MaxArgs}
    /\ \E d \in [Range(args) -> ScoreFiles \cup {NoFile}] :
           disk = [p \in ScorePaths |-> IF p \in Range(args) THEN d[p] ELSE NoFile]

CalculateAccuracyFuzzy ==
    /\ pc = "call"
    /\ accuracy' = calculate_accuracy_fuzzy(args)
    /\ pc' = "done"
    /\ UNCHANGED <<disk, args, dupVars, llmVars, runVars, recVars>>

NextScore == CalculateAccuracyFuzzy

SpecScore == InitScore /\ [][NextScore]_vars

(***************************************************************************)
(* SpecOrder: _calculate_accuracy_fuzzy called on any list of at most      *)
(* MaxArgs of four files, each modified now or 3 days later.               *)
(***************************************************************************)
OrderPaths ==
    { Path("C:", <<"Downloads">>, Stem.report, ".docx"),
      Path("C:", <<"Downloads">>, Stem.report_1, ".docx"),
      Path("C:", <<"Desktop">>, Stem.report_cap, ".docx"),
      Path("C:", <<"Downloads">>, Stem.notes, ".txt") }

OrderFiles ==
    { File(10, "h1", "", 0, TRUE),
      File(10, "h2", "", 3 * SecondsPerDay, TRUE) }

InitOrder ==
    /\ pc = "call"
    /\ accuracy = NoScore
    /\ DupIdle
    /\ LLMIdle
    /\ RunIdle
    /\ RecIdle
    /\ args \in UNION {[1..n -> OrderPaths] : n \in 0..MaxArgs}
    /\ \E d \in [Range(args) -> OrderFiles] :
           disk = [p \in ScorePaths |-> IF p \in Range(args) THEN d[p] ELSE NoFile]

SpecOrder == InitOrder /\ [][NextScore]_vars

(***************************************************************************)
(* find_dup over the target directories.  The files of one run are at most *)
(* MaxFiles of the paths of DupListing, which is the order the directory   *)
(* walk yields them in.  Files of at most 8192 bytes have no second block; *)
(* the large files are one byte above the threshold, or two.               *)
(***************************************************************************)
DupListing ==
    << Path("C:", <<"Downloads">>, Stem.report, ".docx"),
       Path("C:", <<"Downloads">>, Stem.report_1, ".docx"),
       Path("C:", <<"Downloads">>, Stem.notes, ".txt"),
       Path("C:", <<"Downloads", "Program Files">>, Stem.report, ".docx"),
       Path("C:", <<"Desktop">>, Stem.report, ".docx"),
       Path("C:", <<"AppData", "Local", "Temp">>, Stem.notes, ".txt") >>

DupPaths == Range(DupListing)

LargeSize == MIN_DUP_FILE_SIZE_MB * BytesPerMB + 1

DupFiles ==
    { File(0, "", "", 0, TRUE),
      File(10, "h1", "", 0, TRUE),
      File(10, "h2", "", 0, TRUE),
      File(10, "h1", "", 0, FALSE),
      File(10000, "H1", "m1", 0, TRUE),
      File(10000, "H1", "m2", 40 * SecondsPerDay, TRUE),
      File(LargeSize, "H1", "t1", 0, TRUE),
      File(LargeSize, "H1", "t1", 40 * SecondsPerDay, TRUE),
      File(LargeSize, "H1", "t2", 40 * SecondsPerDay, TRUE),
      File(LargeSize + 1, "H1", "u1", 0, TRUE) }

\* a file above 50 MB that is deleted while find_dup runs
Vanishing == [File(LargeSize, "H1", "t1", 0, TRUE) EXCEPT !.lasts = FALSE]

\* the files a path may hold: any of DupFiles, but the file of the Temp
\* directory is one of two, and report_1.docx may also be the vanishing one
DupFilesAt(p) ==
    IF p = DupListing[6]
    THEN {File(10, "h1", "", 0, TRUE), File(LargeSize, "H1", "t1", 0, TRUE)}
    ELSE IF p = DupListing[2] THEN DupFiles \cup {Vanishing}
    ELSE DupFiles

MaxFiles == 3

InitDup ==
    /\ pc = "find_dup"
    /\ ScoreIdle
    /\ DupIdle
    /\ LLMIdle
    /\ RunIdle
    /\ RecIdle
    /\ \E present \in SUBSET DupPaths :
           /\ Cardinality(present) <= MaxFiles
           /\ \E d \in [present -> DupFiles \cup {Vanishing}] :
                  /\ \A p \in present : d[p] \in DupFilesAt(p)
                  /\ disk = [p \in DupPaths |-> IF p \in present THEN d[p] ELSE NoFile]

\* FilesAnalyzer.find_dup(Config.TARGET_DIRS)
FindDup ==
    /\ pc = "find_dup"
    /\ dup_confirmed' = FindDupConfirmed(TARGET_DIRS, DupListing)
    /\ dup_suspect' = FindDupSuspect(TARGET_DIRS, DupListing)
    /\ hash_cache' = FindDupCache(TARGET_DIRS, DupListing)
    /\ pc' = "done"
    /\ UNCHANGED <<disk, scoreVars, llmVars, runVars, recVars>>

NextDup == FindDup

SpecDup == InitDup /\ [][NextDup]_vars

(***************************************************************************)
(* One call of the classifier.  The response is any text of 1 to MaxLines  *)
(* of the lines below; the empty response is what consult returns when the *)
(* request fails.                                                          *)
(***************************************************************************)

\* lines of a response: 'DECISION: YES', 'DECISION: NO', 'RISK: HIGH',
\* 'RISK: LOW', 'SAFETY: DANGEROUS', 'SAFETY: SAFE', 'JUSTIFICATION: ok',
\* 'Decision: yes Risk: high', 'RISK:' and the empty line
Line ==
    [ yes |->
          <<"D", "E", "C", "I", "S", "I", "O", "N", ":", " ", "Y", "E", "S">>,
      no |->
          <<"D", "E", "C", "I", "S", "I", "O", "N", ":", " ", "N", "O">>,
      risk_high |->
          <<"R", "I", "S", "K", ":", " ", "H", "I", "G", "H">>,
      risk_low |->
          <<"R", "I", "S", "K", ":", " ", "L", "O", "W">>,
      dangerous |->
          <<"S", "A", "F", "E", "T", "Y", ":", " ", "D", "A", "N", "G", "E", "R", "O", "U", "S">>,
      safe |->
          <<"S", "A", "F", "E", "T", "Y", ":", " ", "S", "A", "F", "E">>,
      justification |->
          <<"J", "U", "S", "T", "I", "F", "I", "C", "A", "T", "I", "O", "N", ":", " ", "o", "k">>,
      yes_risk_high |->
          <<"D", "e", "c", "i", "s", "i", "o", "n", ":", " ", "y", "e", "s", " ", "R", "i", "s", "k", ":", " ", "h", "i", "g", "h">>,
      risk_bare |->
          <<"R", "I", "S", "K", ":">>,
      empty |->
          <<>> ]

Lines == {Line[k] : k \in DOMAIN Line}

MaxLines == 3

Responses == UNION {[1..n -> Lines] : n \in 1..MaxLines}

\* what becomes of the request of consult: the service answers with a
\* text, or the request raises (connection refused, timeout, HTTP error
\* status, a body that is not the expected JSON)
Replies ==
    [status : {"ok"}, lines : Responses]
    \cup [status : {"unreachable", "timeout", "http_error", "bad_json"},
          lines : {<<>>}]

\* LLMClassifier.consult: the text of the answer, or "" on any exception;
\* "".split('\n') is one empty line
consult(reply) == IF reply.status = "ok" THEN reply.lines ELSE <<Line.empty>>

DAYS_OLD == 90

LLMOld == Path("C:", <<"Downloads">>, Stem.notes, ".txt")
LLMTwin == Path("C:", <<"Downloads">>, Stem.report, ".docx")
LLMProcess == [name |-> "updater.exe", pid |-> 1]

InitLLM ==
    /\ pc = "consulted"
    /\ ScoreIdle
    /\ DupIdle
    /\ \E reply \in Replies : response = consult(reply)
    /\ decisions_history = <<>>
    /\ result = NoResult
    /\ RunIdle
    /\ RecIdle
    /\ \E old \in {File(LargeSize, "H1", "t1", 0, TRUE), NoFile} :
           disk = (LLMOld :> old) @@ (LLMTwin :> File(LargeSize, "H1", "t2", 0, TRUE))

\* LLMClassifier.analyze_suspect_duplicate([LLMOld, LLMTwin], 0.4)
AnalyzeSuspectDuplicate ==
    /\ pc = "consulted"
    /\ LET should_delete == DecisionYes(response)
           found         == FirstJustification(response)
           justification == IF found = <<>> THEN Leading(response) ELSE found
       IN  /\ decisions_history' = Append(decisions_history,
                  [type |-> "suspect_duplicate", files |-> <<LLMOld, LLMTwin>>,
                   initial_confidence |-> Tenth[4], decision |-> should_delete,
                   justification |-> justification])
           /\ result' = Returned(should_delete, justification)
    /\ pc' = "analyze_suspect_duplicate"
    /\ UNCHANGED <<disk, response, scoreVars, dupVars, runVars, recVars>>

\* LLMClassifier.analyze_old_file(LLMOld, DAYS_OLD + 1)
AnalyzeOldFile ==
    /\ pc = "consulted"
    /\ LET call == analyze_old_file(LLMOld, DAYS_OLD + 1, response)
       IN  /\ result' = call.result
           /\ decisions_history' = decisions_history \o call.history
    /\ pc' = "analyze_old_file"
    /\ UNCHANGED <<disk, response, scoreVars, dupVars, runVars, recVars>>

\* LLMClassifier.analyze_process(LLMProcess)
AnalyzeProcess ==
    /\ pc = "consulted"
    /\ LET parsed == ParseFields(response, 1, Mark.safety, <<>>, Default.safety)
           dangerous == Contains(Upper(parsed.level), Mark.dangerous)
           should_kill == DecisionYes(response) /\ ~dangerous
           justification ==
               IF dangerous
               THEN parsed.justification \o <<" [DANGEROUS - will not be killed]">>
               ELSE parsed.justification
       IN  IF parsed.raised
           THEN result' = Raised /\ UNCHANGED decisions_history
           ELSE /\ decisions_history' = Append(decisions_history,
                       [type |-> "process", process |-> LLMProcess.name,
                        pid |-> LLMProcess.pid, decision |-> should_kill,
                        safety |-> parsed.level, justification |-> justification])
                /\ result' = Returned(should_kill, justification)
    /\ pc' = "analyze_process"
    /\ UNCHANGED <<disk, response, scoreVars, dupVars, runVars, recVars>>

NextLLM == AnalyzeSuspectDuplicate \/ AnalyzeOldFile \/ AnalyzeProcess

SpecLLM == InitLLM /\ [][NextLLM]_vars

(***************************************************************************)
(* The cleanup run of main.py: SmartCleaner, Executor, CleanerLogger, and  *)
(* the Recuperator.  The quarantine directory lies outside the target      *)
(* directories; the quarantine copy of a path is the path with the         *)
(* quarantine directory in place of its anchor.  The run takes place at    *)
(* the time Now, in seconds.                                               *)
(***************************************************************************)
EXTENSIONS_TEMP == {".tmp", ".temp", ".log", ".bak", ".old", ".cache", ".dmp"}

EXTENSIONS_COMPRESSED == {".zip", ".rar", ".7z", ".tar", ".gz", ".bz2", ".xz"}

Now == 200 * SecondsPerDay

\* file.suffix.lower(), for the suffixes of the model
SuffixLower(suffix) ==
    IF suffix = ".TMP" THEN ".tmp" ELSE IF suffix = ".ZIP" THEN ".zip" ELSE suffix

\* self.quarantine_dir / file.relative_to(file.anchor)
QPath(file) == [file EXCEPT !.anchor = "quarantine"]

\* the files a cleanup step finds below the directories, whitelist or not
Walk(directories, listing) ==
    Flatten([i \in 1..Len(directories) |-> Rglob(directories[i], listing)])

\* general_cleanup, step 1: temp_files
TempFiles(listing) ==
    SelectSeq(Walk(TARGET_DIRS, listing), LAMBDA file :
        ~is_in_whitelist(file) /\ SuffixLower(file.suffix) \in EXTENSIONS_TEMP)

\* Path.home() / 'Downloads', Path.home() / 'Desktop'
CompressedDirs == <<Dir("C:", <<"Downloads">>), Dir("C:", <<"Desktop">>)>>

\* general_cleanup, step 2: compressed
CompressedFiles(listing) ==
    SelectSeq(Walk(CompressedDirs, listing), LAMBDA file :
        /\ SuffixLower(file.suffix) \in EXTENSIONS_COMPRESSED
        /\ Now - disk[file].mtime > 30 * SecondsPerDay)

Max(a, b) == IF a >= b THEN a ELSE b

\* FilesAnalyzer.unused_files
unused_files(directories, listing) ==
    LET cutoff == Now - DAYS_OLD * SecondsPerDay
        last_access(file) == Max(disk[file].atime, disk[file].mtime)
        old == SelectSeq(Walk(directories, listing), LAMBDA file :
                   ~is_in_whitelist(file) /\ last_access(file) < cutoff)
    IN  [i \in 1..Len(old) |->
            [file |-> old[i],
             days_unused |-> (Now - last_access(old[i])) \div SecondsPerDay,
             size_mb |-> disk[old[i]].size]]

\* unused.sort(key=lambda x: x['days_unused'], reverse=True): stable
RECURSIVE SortOldestFirst(_)
SortOldestFirst(items) ==
    IF items = <<>> THEN <<>>
    ELSE LET top == CHOOSE i \in 1..Len(items) :
                        /\ \A j \in 1..Len(items) :
                               items[j].days_unused <= items[i].days_unused
                        /\ \A j \in 1..(i - 1) :
                               items[j].days_unused < items[i].days_unused
         IN  <<items[top]>> \o
             SortOldestFirst(SubSeq(items, 1, top - 1) \o
                             SubSeq(items, top + 1, Len(items)))

\* shutil.move(file, destination) raises: the file cannot be read to be
\* copied to the quarantine
MoveRaises(d, file) == ~d[file].exists \/ ~d[file].readable

\* shutil.move: the destination takes the file, whatever was there
Move(d, from, to) == [d EXCEPT ![to] = d[from], ![from] = NoFile]

\* CleanerLogger.add_action('delete', file, details): the journal entry
DeleteAction(d, file, details) ==
    IF MoveRaises(d, file)
    THEN [type |-> "delete", file |-> file, details |-> details,
          status |-> "error", error |-> "PermissionError"]
    ELSE [type |-> "delete", file |-> file, details |-> details,
          quarantine |-> QPath(file), status |-> "moved to quarantine"]

\* Executor.delete_file(file, reason) on the disk d, the journal acts and
\* the statistics stats: what it leaves of the three
delete_file(d, acts, stats, file, reason) ==
    IF ~d[file].exists
    THEN [disk |-> d, actions |-> acts,
          statistics |-> [stats EXCEPT !.errors = Append(@, file)]]
    ELSE LET details == [reason |-> reason, size_mb |-> d[file].size]
         IN  [disk |-> IF MoveRaises(d, file) THEN d ELSE Move(d, file, QPath(file)),
              actions |-> Append(acts, DeleteAction(d, file, details)),
              statistics |-> [stats EXCEPT !.files_deleted = @ + 1,
                                           !.space_freed_mb = @ + d[file].size]]

\* Recuperator.list_recoverable_actions: the indices of the entries listed
Recoverable(entries) ==
    SelectSeq([i \in 1..Len(entries) |-> i], LAMBDA i :
        entries[i].type = "delete" /\ "quarantine" \in DOMAIN entries[i])

(***************************************************************************)
(* One run of main(), and the recovery sessions that follow it.            *)
(***************************************************************************)
RunListing ==
    << Path("C:", <<"Downloads">>, Stem.notes, ".TMP"),
       Path("C:", <<"Downloads">>, Stem.report, ".docx"),
       Path("C:", <<"Downloads", "Program Files">>, Stem.notes, ".zip"),
       Path("C:", <<"Desktop">>, Stem.notes, ".zip"),
       Path("C:", <<"Desktop">>, Stem.report, ".docx") >>

RunPaths == Range(RunListing)

RunFiles ==
    { File(10, "h1", "", Now, TRUE),
      File(10, "h1", "", Now - 100 * SecondsPerDay, TRUE),
      File(10, "h1", "", Now - 100 * SecondsPerDay, FALSE),
      File(LargeSize, "H1", "t1", Now - 100 * SecondsPerDay, TRUE) }

MaxRunFiles == 2

\* what consult returns to the unused-file step
RunResponses ==
    { <<Line.yes>>, <<Line.no>>, <<Line.yes, Line.risk_high>>, <<Line.risk_bare>>,
      consult([status |-> "timeout", lines |-> <<>>]) }

MaxSessions == 2

MaxPick == 1

InitRun ==
    /\ pc = "main"
    /\ ScoreIdle /\ DupIdle /\ LLMIdle /\ RunIdle /\ RecIdle
    /\ \E present \in SUBSET RunPaths :
           /\ Cardinality(present) <= MaxRunFiles
           /\ \E d \in [present -> RunFiles] :
                  disk = [p \in RunPaths \cup {QPath(q) : q \in RunPaths} |->
                             IF p \in present THEN d[p] ELSE NoFile]

Batch(files, reason) ==
    [i \in 1..Len(files) |-> [file |-> files[i], reason |-> reason]]

\* main: the mode is chosen and the SmartCleaner built; with choice 3 and
\* no journal yet, main returns
Main ==
    /\ pc = "main"
    /\ \E choice \in {"1", "2", "3"} :
           IF choice = "3"
           THEN pc' = "exit" /\ UNCHANGED <<mode, llm_available, scope>>
           ELSE /\ mode' = IF choice = "2" THEN "deep" ELSE "general"
                /\ llm_available' \in BOOLEAN
                /\ scope' = "try"
                /\ pc' = "temp_files"
    /\ UNCHANGED <<disk, scoreVars, dupVars, llmVars, todo, resume, unused,
                   actions, statistics, log_file, llm_log, exit_status,
                   recVars>>

\* general_cleanup, step 1, up to the call of delete_batch
GeneralTemp ==
    /\ pc = "temp_files"
    /\ LET temp_files == TempFiles(RunListing)
       IN  /\ todo' = Batch(temp_files, "temporary file")
           /\ pc' = IF temp_files = <<>> THEN "compressed" ELSE "delete_batch"
    /\ resume' = "compressed"
    /\ UNCHANGED <<disk, scoreVars, dupVars, llmVars, mode, llm_available,
                   unused, actions, statistics, log_file, llm_log, scope,
                   exit_status, recVars>>

\* Executor.delete_batch: one turn of its loop
DeleteBatch ==
    /\ pc = "delete_batch"
    /\ LET after == delete_file(disk, actions, statistics,
                                Head(todo).file, Head(todo).reason)
       IN  /\ disk' = after.disk
           /\ actions' = after.actions
           /\ statistics' = after.statistics
    /\ todo' = Tail(todo)
    /\ pc' = IF Tail(todo) = <<>> THEN resume ELSE "delete_batch"
    /\ UNCHANGED <<scoreVars, dupVars, llmVars, mode, llm_available, resume,
                   unused, log_file, llm_log, scope, exit_status, recVars>>

\* KeyboardInterrupt inside add_action, between shutil.move and the append
\* to log_data['actions']; main's handler goes on to finalize
InterruptedMove ==
    /\ pc = "delete_batch"
    /\ ~MoveRaises(disk, Head(todo).file)
    /\ disk' = Move(disk, Head(todo).file, QPath(Head(todo).file))
    /\ todo' = <<>>
    /\ scope' = "except"
    /\ pc' = "finalize"
    /\ UNCHANGED <<scoreVars, dupVars, llmVars, mode, llm_available, resume,
                   unused, actions, statistics, log_file, llm_log,
                   exit_status, recVars>>

\* KeyboardInterrupt between two steps of the cleanup
Interrupt ==
    /\ pc \in {"temp_files", "delete_batch", "compressed", "processes",
               "find_dup", "unused_files", "unused_loop"}
    /\ todo' = <<>>
    /\ unused' = <<>>
    /\ scope' = "except"
    /\ pc' = "finalize"
    /\ UNCHANGED <<disk, scoreVars, dupVars, llmVars, mode, llm_available,
                   resume, actions, statistics, log_file, llm_log,
                   exit_status, recVars>>

\* general_cleanup, step 2, up to the call of delete_batch
GeneralCompressed ==
    /\ pc = "compressed"
    /\ \E answer \in {"y", "n"} :
           LET compressed == CompressedFiles(RunListing)
           IN  IF compressed # <<>> /\ answer # "n"
               THEN /\ todo' = Batch(compressed, "old compressed file")
                    /\ resume' = "processes"
                    /\ pc' = "delete_batch"
               ELSE /\ pc' = "processes"
                    /\ UNCHANGED <<todo, resume>>
    /\ UNCHANGED <<disk, scoreVars, dupVars, llmVars, mode, llm_available,
                   unused, actions, statistics, log_file, llm_log, scope,
                   exit_status, recVars>>

\* general_cleanup, step 3, the monitor reporting no problem; general
\* cleanup returns to main or to deep_cleanup
GeneralProcesses ==
    /\ pc = "processes"
    /\ pc' = IF mode = "general" THEN "finalize" ELSE "find_dup"
    /\ UNCHANGED <<disk, scoreVars, dupVars, llmVars, runVars, recVars>>

\* deep_cleanup, step 4: group['size_mb'] (line 138) and
\* group['confidence'] (line 162) raise KeyError, which main reports
\* before it returns
DeepDuplicates ==
    /\ pc = "find_dup"
    /\ dup_confirmed' = FindDupConfirmed(TARGET_DIRS, RunListing)
    /\ dup_suspect' = FindDupSuspect(TARGET_DIRS, RunListing)
    /\ hash_cache' = FindDupCache(TARGET_DIRS, RunListing)
    /\ pc' = IF dup_confirmed' # <<>> THEN "crashed"
             ELSE IF dup_suspect' # <<>> /\ llm_available THEN "crashed"
             ELSE "unused_files"
    /\ UNCHANGED <<disk, scoreVars, llmVars, runVars, recVars>>

\* deep_cleanup, step 5, up to the loop over the unused files
DeepUnused ==
    /\ pc = "unused_files"
    /\ unused' = SortOldestFirst(unused_files(TARGET_DIRS, RunListing))
    /\ pc' = IF unused' = <<>> THEN "finalize" ELSE "unused_loop"
    /\ UNCHANGED <<disk, scoreVars, dupVars, llmVars, mode, llm_available,
                   todo, resume, actions, statistics, log_file, llm_log,
                   scope, exit_status, recVars>>

\* a fallback that takes every unused file for safe to delete
basic_rule_any(file) == TRUE

\* deep_cleanup without the classifier: delete only safe extensions
basic_rule(file) == SuffixLower(file.suffix) \in EXTENSIONS_TEMP

\* deep_cleanup, step 5: one turn of the loop over the unused files
DeepUnusedItem ==
    /\ pc = "unused_loop"
    /\ LET item  == Head(unused)
           after == delete_file(disk, actions, statistics, item.file,
                                IF llm_available THEN "unused" ELSE "old temporary")
           next  == IF Tail(unused) = <<>> THEN "finalize" ELSE "unused_loop"
       IN  IF llm_available
           THEN \E lines \in RunResponses :
                    LET call == analyze_old_file(item.file, item.days_unused, lines)
                    IN  /\ response' = lines
                        /\ result' = call.result
                        /\ decisions_history' = decisions_history \o call.history
                        /\ pc' = IF call.result.status = "raised"
                                 THEN "crashed" ELSE next
                        /\ IF call.result.flag
                           THEN /\ disk' = after.disk
                                /\ actions' = after.actions
                                /\ statistics' = after.statistics
                           ELSE UNCHANGED <<disk, actions, statistics>>
           ELSE /\ pc' = next
                /\ IF basic_rule(item.file)
                   THEN /\ disk' = after.disk
                        /\ actions' = after.actions
                        /\ statistics' = after.statistics
                   ELSE UNCHANGED <<disk, actions, statistics>>
                /\ UNCHANGED llmVars
    /\ unused' = Tail(unused)
    /\ UNCHANGED <<scoreVars, dupVars, mode, llm_available, todo, resume,
                   log_file, llm_log, scope, exit_status, recVars>>

\* SmartCleaner.finalize: the journal is written, the history of the
\* classifier saved, and the recovery menu offered.  When the journal
\* cannot be opened for writing, the exception leaves finalize: in the try
\* block main's 'except Exception' reports it and main returns, in the
\* KeyboardInterrupt handler nothing catches it
Finalize ==
    /\ pc = "finalize"
    /\ \E writable \in BOOLEAN :
           IF writable
           THEN /\ log_file' = [log_file EXCEPT !.written = TRUE,
                                                !.actions = actions,
                                                !.statistics = statistics,
                                                !.writes = @ + 1]
                /\ llm_log' = IF llm_available /\ decisions_history # <<>>
                              THEN decisions_history ELSE llm_log
                /\ \E answer \in {"y", "n"} :
                       IF answer # "n"
                       THEN /\ log_data' = actions
                            /\ sessions' = sessions + 1
                            /\ pc' = "interactive_menu"
                       ELSE /\ pc' = "exit"
                            /\ UNCHANGED <<log_data, sessions>>
                /\ UNCHANGED exit_status
           ELSE /\ log_file' = [log_file EXCEPT !.failed = TRUE]
                /\ pc' = IF scope = "try" THEN "crashed" ELSE "exit"
                /\ exit_status' = IF scope = "try" THEN exit_status ELSE 1
                /\ UNCHANGED <<llm_log, log_data, sessions>>
    /\ UNCHANGED <<disk, scoreVars, dupVars, llmVars, mode, llm_available,
                   todo, resume, unused, actions, statistics, scope, indices,
                   recover, purge, last_call>>

\* KeyboardInterrupt after finalize has written the journal, while it waits
\* for the answer to its question or the recovery menu for the choice: in
\* the try block main's handler calls finalize again, in the handler
\* nothing catches it
InterruptMenu ==
    /\ pc = "interactive_menu"
    /\ scope # "none"
    /\ pc' = IF scope = "try" THEN "finalize" ELSE "exit"
    /\ scope' = "except"
    /\ exit_status' = IF scope = "try" THEN exit_status ELSE 1
    /\ UNCHANGED <<disk, scoreVars, dupVars, llmVars, mode, llm_available,
                   todo, resume, unused, actions, statistics, log_file,
                   llm_log, recVars>>

\* main, choice 3, in a later process: the objects of the cleanup run are
\* gone, only the files remain, and the Recuperator loads the journal; the
\* count of writes starts again
RecoveryMode ==
    /\ pc = "exit"
    /\ log_file.written
    /\ sessions < MaxSessions
    /\ log_file' = [log_file EXCEPT !.writes = 0, !.failed = FALSE]
    /\ scope' = "none" /\ exit_status' = 0
    /\ log_data' = log_file.actions
    /\ sessions' = sessions + 1
    /\ pc' = "interactive_menu"
    /\ hash_cache' = <<>> /\ dup_confirmed' = <<>> /\ dup_suspect' = <<>>
    /\ response' = <<>> /\ decisions_history' = <<>> /\ result' = NoResult
    /\ mode' = "general" /\ llm_available' = FALSE
    /\ todo' = <<>> /\ resume' = "" /\ unused' = <<>>
    /\ actions' = <<>> /\ statistics' = NoStatistics
    /\ indices' = <<>> /\ recover' = <<>> /\ purge' = <<>>
    /\ last_call' = NoCall
    /\ UNCHANGED <<disk, scoreVars, llm_log>>

\* shutil.rmtree(directory): no file is left in it or below it
Rmtree(d, directory) ==
    [p \in DOMAIN d |->
        IF p.anchor = directory.anchor /\ IsPrefix(directory.dir, p.dir)
        THEN NoFile ELSE d[p]]

\* Recuperator.delete_permanently, confirmed: the directory of the first
\* quarantine copy of the journal is removed
delete_permanently(d, entries) ==
    LET held == SelectSeq(entries, LAMBDA a : "quarantine" \in DOMAIN a)
    IN  IF held = <<>> THEN d
        ELSE Rmtree(d, Dir(held[1].quarantine.anchor, held[1].quarantine.dir))

\* a call of the Recuperator: whether it went ahead, and what it printed
Called(op, index, found, printed) ==
    [op |-> op, index |-> index, found |-> found, printed |-> printed]

\* what the user may type when delete_permanently asks for 'YES'
Confirmations == {<<"Y", "E", "S">>, <<"y", "e", "s">>, <<"Y">>, <<>>}

\* confirm.upper() == 'YES'
Confirmed(confirm) == Upper(confirm) = <<"Y", "E", "S">>

\* what the user may type at the menu: A, N followed by an answer to the
\* confirmation, 1 to MaxPick numbers (each the index of an entry, or one
\* past the last entry and so the index of none), or anything else
MenuChoices ==
    {[kind |-> "A", confirm |-> <<>>, indices |-> <<>>],
     [kind |-> "invalid", confirm |-> <<>>, indices |-> <<>>]}
    \cup {[kind |-> "N", confirm |-> confirm, indices |-> <<>>] :
             confirm \in Confirmations}
    \cup {[kind |-> "indices", confirm |-> <<>>, indices |-> picked] :
             picked \in UNION {[1..n -> 1..(Len(log_data) + 1)] : n \in 1..MaxPick}}

\* interactive_menu without its loop over the files not selected
NotRecoveredKept(recoverable, selected) == <<>>

\* not_recovered: the listed entries whose index was not entered
NotRecovered(recoverable, selected) ==
    SelectSeq(recoverable, LAMBDA idx : idx \notin Range(selected))

\* Recuperator.interactive_menu, up to the loops over the entries; the list
\* of indices lives until the menu returns
InteractiveMenu ==
    /\ pc = "interactive_menu"
    /\ LET recoverable == Recoverable(log_data)
       IN  IF recoverable = <<>>
           THEN pc' = "exit" /\ UNCHANGED <<disk, indices, recover, purge, last_call>>
           ELSE \E choice \in MenuChoices :
                  CASE choice.kind = "A" ->
                         /\ indices' = recoverable
                         /\ recover' = recoverable
                         /\ purge' = <<>>
                         /\ pc' = "recover"
                         /\ UNCHANGED <<disk, last_call>>
                    [] choice.kind = "N" ->
                         /\ IF Confirmed(choice.confirm)
                            THEN /\ disk' = delete_permanently(disk, log_data)
                                 /\ last_call' = Called("delete_permanently", 0,
                                        TRUE, "Quarantine deleted")
                            ELSE /\ disk' = disk
                                 /\ last_call' = Called("delete_permanently", 0,
                                        FALSE, "Operation cancelled.")
                         /\ pc' = "exit"
                         /\ UNCHANGED <<indices, recover, purge>>
                    [] choice.kind = "indices" ->
                         /\ recover' = SelectSeq(choice.indices,
                                LAMBDA idx : idx \in Range(recoverable))
                         /\ purge' = NotRecovered(recoverable, choice.indices)
                         /\ pc' = IF recover' # <<>> THEN "recover"
                                  ELSE IF purge' # <<>> THEN "purge" ELSE "exit"
                         /\ indices' = IF pc' = "exit" THEN <<>> ELSE choice.indices
                         /\ UNCHANGED <<disk, last_call>>
                    [] OTHER ->
                         /\ pc' = "exit"
                         /\ UNCHANGED <<disk, indices, recover, purge, last_call>>
    /\ UNCHANGED <<scoreVars, dupVars, llmVars, runVars, log_data, sessions>>

\* Recuperator.recover_file(item), item being the entry at index
recover_file(d, entries, index) ==
    LET quarantine == entries[index].quarantine
        original   == entries[index].file
    IN  IF ~d[quarantine].exists
        THEN [disk |-> d,
              call |-> Called("recover_file", index, FALSE,
                              "File not found in quarantine")]
        ELSE IF MoveRaises(d, quarantine)
        THEN [disk |-> d,
              call |-> Called("recover_file", index, TRUE, "Error recovering")]
        ELSE [disk |-> Move(d, quarantine, original),
              call |-> Called("recover_file", index, TRUE, "Recovered")]

\* quarantine.unlink() raises: the copy is missing, or is held open
UnlinkRaises(d, file) == ~d[file].exists \/ ~d[file].readable

\* delete_file without the test of quarantine.exists()
rec_delete_file_unguarded(d, entries, index) ==
    LET quarantine == entries[index].quarantine
    IN  IF UnlinkRaises(d, quarantine)
        THEN [disk |-> d,
              call |-> Called("delete_file", index, d[quarantine].exists,
                              "Error deleting")]
        ELSE [disk |-> [d EXCEPT ![quarantine] = NoFile],
              call |-> Called("delete_file", index, TRUE, "")]

\* Recuperator.delete_file(item), item being the entry at index
rec_delete_file(d, entries, index) ==
    LET quarantine == entries[index].quarantine
    IN  IF ~d[quarantine].exists
        THEN [disk |-> d, call |-> Called("delete_file", index, FALSE, "")]
        ELSE IF UnlinkRaises(d, quarantine)
        THEN [disk |-> d,
              call |-> Called("delete_file", index, TRUE, "Error deleting")]
        ELSE [disk |-> [d EXCEPT ![quarantine] = NoFile],
              call |-> Called("delete_file", index, TRUE, "")]

\* interactive_menu: one turn of the loop that recovers the selected entries
RecoverFile ==
    /\ pc = "recover"
    /\ LET after == recover_file(disk, log_data, Head(recover))
       IN  disk' = after.disk /\ last_call' = after.call
    /\ recover' = Tail(recover)
    /\ pc' = IF Tail(recover) # <<>> THEN "recover"
             ELSE IF purge # <<>> THEN "purge" ELSE "exit"
    /\ indices' = IF pc' = "exit" THEN <<>> ELSE indices
    /\ UNCHANGED <<scoreVars, dupVars, llmVars, runVars, log_data, purge,
                   sessions>>

\* interactive_menu: one turn of the loop that deletes the other entries
DeleteQuarantined ==
    /\ pc = "purge"
    /\ LET after == rec_delete_file(disk, log_data, Head(purge))
       IN  disk' = after.disk /\ last_call' = after.call
    /\ purge' = Tail(purge)
    /\ pc' = IF Tail(purge) # <<>> THEN "purge" ELSE "exit"
    /\ indices' = IF pc' = "exit" THEN <<>> ELSE indices
    /\ UNCHANGED <<scoreVars, dupVars, llmVars, runVars, log_data, recover,
                   sessions>>

NextRun ==
    \/ Main
    \/ GeneralTemp
    \/ DeleteBatch
    \/ InterruptedMove
    \/ Interrupt
    \/ GeneralCompressed
    \/ GeneralProcesses
    \/ DeepDuplicates
    \/ DeepUnused
    \/ DeepUnusedItem
    \/ Finalize
    \/ InterruptMenu
    \/ RecoveryMode
    \/ InteractiveMenu
    \/ RecoverFile
    \/ DeleteQuarantined

SpecRun == InitRun /\ [][NextRun]_vars

(***************************************************************************)
(* A run that follows an earlier run.  CleanerLogger.__init__ gives every  *)
(* run the same quarantine directory, data/logs/quarantine, so the run     *)
(* starts with what the earlier run left: here the copy of notes.TMP in    *)
(* the quarantine and the journal file that records its move.  The path    *)
(* notes.TMP may hold a file again.                                        *)
(***************************************************************************)
EarlierFile == RunListing[1]

EarlierCopy == File(10, "h2", "", Now - 100 * SecondsPerDay, TRUE)

EarlierJournal ==
    [NoJournal EXCEPT
        !.written = TRUE,
        !.actions = <<[type |-> "delete", file |-> EarlierFile,
                       details |-> [reason |-> "temporary file", size_mb |-> 10],
                       quarantine |-> QPath(EarlierFile),
                       status |-> "moved to quarantine"]>>,
        !.statistics = [NoStatistics EXCEPT !.files_deleted = 1,
                                            !.space_freed_mb = 10]]

InitAgain ==
    /\ pc = "main"
    /\ ScoreIdle /\ DupIdle /\ LLMIdle /\ RecIdle
    /\ mode = "general" /\ llm_available = FALSE
    /\ todo = <<>> /\ resume = "" /\ unused = <<>>
    /\ actions = <<>> /\ statistics = NoStatistics
    /\ log_file = EarlierJournal /\ llm_log = <<>>
    /\ scope = "none" /\ exit_status = 0
    /\ \E present \in SUBSET RunPaths :
           /\ Cardinality(present) <= MaxRunFiles
           /\ \E d \in [present -> RunFiles] :
                  disk = [p \in RunPaths \cup {QPath(q) : q \in RunPaths} |->
                             IF p \in present THEN d[p]
                             ELSE IF p = QPath(EarlierFile) THEN EarlierCopy
                             ELSE NoFile]

SpecAgain == InitAgain /\ [][NextRun]_vars

(***************************************************************************)
(* The claims about the similarity score (SpecScore, SpecOrder).           *)
(***************************************************************************)
Orders(n) == {f \in [1..n -> 1..n] : \A i, j \in 1..n : f[i] = f[j] => i = j}

Reorder(files, f) == [i \in 1..Len(files) |-> files[f[i]]]

\* |x - y| <= units * 2^-64, for floats less than one unit of the top limb apart
FWithin(x, y, units) ==
    LET d12 == (x[1] - y[1]) * Limb + (x[2] - y[2])
    IN  /\ Abs(x[1] - y[1]) <= 1
        /\ Abs(d12) <= 1
        /\ Abs(d12 * Limb + (x[3] - y[3])) <= units

\* 2^-48 in units of 2^-64
RoundingTolerance == 2^16

\* C6 as stated: the score of a list does not depend on the order of its
\* files (for two files: score(A,B) = score(B,A)).
C6_OrderIndependent ==
    pc = "done" =>
        \A f \in Orders(Len(args)) :
            calculate_accuracy_fuzzy(Reorder(args, f)) = accuracy

\* C6 as amended: the score of two files is exactly symmetric, and the score
\* of a longer list changes by less than 2^-48 when the list is reordered
\* (the pair scores are summed in list order, in floating point).
C6_PairSymmetric ==
    pc = "done" =>
        /\ Len(args) = 2 =>
               calculate_accuracy_fuzzy(<<args[2], args[1]>>) = accuracy
        /\ \A f \in Orders(Len(args)) :
               FWithin(calculate_accuracy_fuzzy(Reorder(args, f)), accuracy,
                       RoundingTolerance)

\* C6 witness: two distinct existing files were scored, with a positive score.
C6_Witness ==
    /\ pc = "done"
    /\ Len(args) = 2
    /\ args[1] # args[2]
    /\ Exists(args[1]) /\ Exists(args[2])
    /\ accuracy # FZero

\* C7: the score is in [0.0, 1.0], and it is 0.0 for fewer than 2 files.
C7_ScoreBounded ==
    pc = "done" =>
        /\ FGe(accuracy, FZero)
        /\ FGe(FromInt(1), accuracy)
        /\ Len(args) < 2 => accuracy = FZero

\* C7 witness: a list of three files reached the largest score, 1.0.
C7_Witness ==
    /\ pc = "done"
    /\ Len(args) = 3
    /\ accuracy = FromInt(1)

\* the float 0.0 + a/10 + b/10 + c/10 + d/10, summed left to right
Sum4(a, b, c, d) ==
    FAdd(FAdd(FAdd(FAdd(FZero, Tenth[a]), Tenth[b]), Tenth[c]), Tenth[d])

\* the stems of the two files are equal once the numeric suffixes are removed
StrippedStemsEqual(file1, file2) ==
    /\ Words(ReSub(Lower(file1.stem))) = Words(ReSub(Lower(file2.stem)))
    /\ Words(ReSub(Lower(file1.stem))) # {}

\* the case of C8: two files with equal stripped stems, equal extension,
\* modification times less than a day apart and equal fast digest
C8_Case ==
    /\ pc = "done"
    /\ Len(args) = 2
    /\ StrippedStemsEqual(args[1], args[2])
    /\ args[1].suffix = args[2].suffix
    /\ ~OpenRaises(args[1]) /\ ~OpenRaises(args[2])
    /\ Abs(disk[args[1]].mtime - disk[args[2]].mtime) < SecondsPerDay
    /\ fast_hash(args[1]) = fast_hash(args[2])

\* C8 as stated: such a pair gets the name signal 0.4 and the score 1.0.
C8_StrippedStemScoresOne == C8_Case => accuracy = FromInt(1)

\* C8 as amended: such a pair gets the name signal 0.4 and the score 1.0 only
\* when the lowercased stems are equal as they are; when one stem contains
\* the other (report, report (1)) the name signal is 0.3 and the score is
\* 0.2 + 0.3 + 0.2 + 0.2; otherwise (report (1), report (2)) the name signal
\* is 0.2 and the score is 0.2 + 0.2 + 0.2 + 0.2.
C8_NameSignalByRawStem ==
    C8_Case =>
        LET name1 == Lower(args[1].stem)
            name2 == Lower(args[2].stem)
        IN  accuracy =
                IF name1 = name2 THEN FromInt(1)
                ELSE IF Contains(name1, name2) \/ Contains(name2, name1)
                THEN Sum4(2, 3, 2, 2)
                ELSE Sum4(2, 2, 2, 2)

\* C8 witness: report.docx and report (1).docx, modified 2 hours apart, were
\* scored.
C8_Witness ==
    /\ C8_Case
    /\ args[1].stem = Stem.report /\ args[2].stem = Stem.report_1
    /\ Abs(disk[args[1]].mtime - disk[args[2]].mtime) = 7200
    /\ accuracy = Sum4(2, 3, 2, 2)

(***************************************************************************)
(* The claims about find_dup (SpecDup).                                    *)
(***************************************************************************)
UnderRoots(p) ==
    \E i \in 1..Len(TARGET_DIRS) :
        TARGET_DIRS[i].anchor = p.anchor /\ IsPrefix(TARGET_DIRS[i].dir, p.dir)

Candidate(p) ==
    Exists(p) /\ disk[p].readable /\ UnderRoots(p) /\ ~is_in_whitelist(p)

SameContent(p, q) ==
    /\ disk[p].size = disk[q].size
    /\ disk[p].head = disk[q].head
    /\ disk[p].tail = disk[q].tail

Together(groups, p, q) ==
    \E i \in 1..Len(groups) : {p, q} \subseteq Range(groups[i].files)

ConfirmedAsOne(p, q) ==
    \E i \in 1..Len(dup_confirmed) :
        /\ {p, q} \subseteq Range(dup_confirmed[i].files)
        /\ dup_confirmed[i].accuracy = FromInt(1)
        /\ dup_confirmed[i].type = "confirmed"

SuspectBelowThreshold(p, q) ==
    \E i \in 1..Len(dup_suspect) :
        /\ {p, q} \subseteq Range(dup_suspect[i].files)
        /\ ~FGe(dup_suspect[i].accuracy, ACCURACY_DUP)
        /\ dup_suspect[i].type = "suspect"

\* two files with the same bytes that stay where they are during the scan
IdenticalPair(p, q) ==
    /\ p # q /\ Candidate(p) /\ Candidate(q) /\ SameContent(p, q)
    /\ disk[p].lasts /\ disk[q].lasts

\* C1, as the claim states it: any two readable, non-whitelisted files under
\* the scanned roots with the same size and the same bytes are together in
\* one confirmed group of accuracy 1.0, whatever their size, names,
\* extensions and modification times.
C1_IdenticalAlwaysConfirmed ==
    pc = "done" =>
        \A p, q \in DOMAIN disk : IdenticalPair(p, q) => ConfirmedAsOne(p, q)

\* C1, amended: two such files that are not empty are together in one
\* group.  Up to 50 MB it is a confirmed group of accuracy 1.0; above 50 MB
\* it is either a confirmed group of accuracy 1.0 or, when their fast-digest
\* cluster scores below 0.6, a suspect group carrying that score.
C1_IdenticalGrouped ==
    pc = "done" =>
        \A p, q \in DOMAIN disk :
            IdenticalPair(p, q) /\ disk[p].size > 0 =>
                /\ ConfirmedAsOne(p, q) \/ SuspectBelowThreshold(p, q)
                /\ IsSmall(disk[p].size) => ConfirmedAsOne(p, q)
                /\ ~(ConfirmedAsOne(p, q) /\ Together(dup_suspect, p, q))

\* two identical files above 50 MB confirmed as one group, and two identical
\* files of 10 bytes in another run are covered by the same formula
C1_Witness ==
    /\ pc = "done"
    /\ \E p, q \in DOMAIN disk :
           /\ IdenticalPair(p, q)
           /\ ~IsSmall(disk[p].size)
           /\ disk[p].mtime # disk[q].mtime
           /\ ConfirmedAsOne(p, q)

\* C2: no group of find_dup, confirmed or suspect, holds two files of
\* different byte sizes.
C2_GroupsOneSize ==
    \A i \in 1..Len(dup_confirmed \o dup_suspect) :
        LET group == (dup_confirmed \o dup_suspect)[i]
        IN  \A p, q \in Range(group.files) :
                /\ disk[p].size = disk[q].size
                /\ disk[p].size = group.length

\* a group is returned while a file of another size with the same first
\* block was scanned and left out of it
C2_Witness ==
    /\ pc = "done"
    /\ \E i \in 1..Len(dup_confirmed \o dup_suspect) :
           LET group == (dup_confirmed \o dup_suspect)[i]
           IN  \E r \in DOMAIN disk :
                   /\ Candidate(r)
                   /\ r \notin Range(group.files)
                   /\ disk[r].size # group.length
                   /\ \A p \in Range(group.files) : disk[r].head = disk[p].head

FortyDays == 40 * SecondsPerDay

\* the pair of claim C9: same size, different bytes, same fast digest,
\* names that earn no name signal, modified 40 days apart
CollidingPair(p, q) ==
    /\ p # q /\ Candidate(p) /\ Candidate(q)
    /\ disk[p].size = disk[q].size
    /\ disk[p].size > 0
    /\ fast_hash(p) = fast_hash(q)
    /\ disk[p].tail # disk[q].tail
    /\ NameScore(FZero, p, q) = FZero
    /\ Abs(disk[p].mtime - disk[q].mtime) = FortyDays

AloneInCluster(p, q) ==
    \A r \in DOMAIN disk :
        Candidate(r) /\ disk[r].size = disk[p].size /\ fast_hash(r) = fast_hash(p)
            => r \in {p, q}

Holds(text) == Contains(Upper(Join(response)), text)

DangerMark == IF pc = "analyze_process" THEN Mark.safety \o <<" ">> \o Mark.dangerous
              ELSE Mark.risk \o <<" ">> \o Mark.high

\* C3: for each of the three arbitration operations, a response holding
\* 'DECISION: YES' and the highest danger tier ('RISK: HIGH', for a process
\* 'SAFETY: DANGEROUS') makes the call return the flag False, whatever else
\* the response holds and in whatever order its lines are.
C3_DangerAlwaysKeeps ==
    pc \in {"analyze_suspect_duplicate", "analyze_old_file", "analyze_process"}
        /\ Holds(Mark.decision_yes) /\ Holds(DangerMark)
        => result.status = "returned" /\ result.flag = FALSE

(***************************************************************************)
(* The claims about quarantine, journal and recovery (SpecRun).            *)
(***************************************************************************)
\* C4: quarantining a file and then recovering its journal entry leaves the
\* file at its original path with the size it had, leaves no copy in the
\* quarantine, and takes the status of the entry from quarantined to
\* recovered, in the Recuperator's journal and in the journal file.
C4_RecoverRoundTrip ==
    last_call.op = "recover_file" /\ last_call.printed = "Recovered" =>
        LET entry == log_data[last_call.index]
        IN  /\ Exists(entry.file)
            /\ disk[entry.file].size = entry.details.size_mb
            /\ ~Exists(entry.quarantine)
            /\ entry.status = "recovered"
            /\ log_file.actions[last_call.index].status = "recovered"

\* the journal file holds an entry for the quarantine move of the file
Journaled(file) ==
    /\ log_file.written
    /\ \E i \in 1..Len(log_file.actions) :
           /\ log_file.actions[i].type = "delete"
           /\ log_file.actions[i].file = file
           /\ log_file.actions[i].status = "moved to quarantine"

\* C5: however the run ends (completion, interrupt, error in a cleanup
\* step), when the process has ended every file moved to the quarantine
\* during the run has its move recorded in the journal file.
C5_MovesJournaled ==
    pc \in {"exit", "crashed"} =>
        \A file \in RunPaths : Exists(QPath(file)) => Journaled(file)

\* the next turn of the purge loop is for an entry whose quarantine copy is
\* gone
PurgeOfMissing == pc = "purge" /\ ~Exists(log_data[Head(purge)].quarantine)

Touched(file) ==
    \/ Exists(QPath(file))
    \/ \E i \in 1..Len(todo) : todo[i].file = file
    \/ \E i \in 1..Len(unused) : unused[i].file = file
    \/ \E i \in 1..Len(dup_confirmed \o dup_suspect) :
           file \in Range((dup_confirmed \o dup_suspect)[i].files)
    \/ \E i \in 1..Len(actions) : actions[i].file = file

\* C11: no file whose path satisfies is_in_whitelist is ever in the candidate
\* list of a cleanup step (temporary files, compressed files, duplicate
\* groups, unused files) or moved to the quarantine.
C11_WhitelistNeverTouched ==
    \A file \in RunPaths : is_in_whitelist(file) => ~Touched(file)

\* delete_batch is at a file that exists and that shutil.move cannot move
MoveFails == pc = "delete_batch" /\ Exists(Head(todo).file)
                 /\ MoveRaises(disk, Head(todo).file)

\* C12: when the move to quarantine fails for a file, the journal action
\* gets status 'error' with the error text, the file stays at its original
\* path, the failure is counted in the statistics as an error and not as a
\* deleted file or freed space, and the batch goes on with its next file.
C12_MoveFailureCountedAsError ==
    [][MoveFails /\ actions' # actions =>
          /\ Len(actions') = Len(actions) + 1
          /\ actions'[Len(actions')].status = "error"
          /\ actions'[Len(actions')].error # ""
          /\ disk' = disk
          /\ statistics'.files_deleted = statistics.files_deleted
          /\ statistics'.space_freed_mb = statistics.space_freed_mb
          /\ Len(statistics'.errors) = Len(statistics.errors) + 1
          /\ todo' = Tail(todo)
          /\ pc' = IF todo' # <<>> THEN "delete_batch" ELSE resume]_vars

(***************************************************************************)
(* The claims about the failing classifier and the audit trail (SpecLLM).  *)
(***************************************************************************)
\* the request of consult failed: one way it fails
Unreachable == [status |-> "unreachable", lines |-> <<>>]

\* C13: when the classifier is unreachable, times out or returns an error,
\* consult returns the empty string, and each of the three arbitration
\* operations returns, without raising, the flag False (keep, no-kill).
C13_AbstentionKeeps ==
    /\ \A reply \in Replies :
           reply.status # "ok" => Join(consult(reply)) = <<>>
    /\ pc \in {"analyze_suspect_duplicate", "analyze_old_file", "analyze_process"}
           /\ response = consult(Unreachable)
           => result.status = "returned" /\ result.flag = FALSE

\* analyze_old_file has returned (False, "") on the empty response for a
\* file that exists, and recorded the decision
C13_Witness ==
    /\ pc = "analyze_old_file"
    /\ response = consult(Unreachable)
    /\ Exists(LLMOld)
    /\ result = Returned(FALSE, <<>>)
    /\ Len(decisions_history) = 1
    /\ decisions_history[1].decision = FALSE

\* C19: every decision an arbitration operation returns, for a suspect
\* group, an aged file or a process, has been appended to decisions_history
\* with its rationale, also when the subject file cannot be accessed.
C19_EveryDecisionAudited ==
    pc \in {"analyze_suspect_duplicate", "analyze_old_file", "analyze_process"}
        /\ result.status = "returned"
        => /\ Len(decisions_history) = 1
           /\ decisions_history[1].decision = result.flag
           /\ decisions_history[1].justification = result.justification

(***************************************************************************)
(* The claims about the recovery menu (SpecRun).                           *)
(***************************************************************************)
\* the entry was moved to the quarantine and has been neither recovered nor
\* purged since: its copy is still held there
Quarantined(entry) ==
    /\ entry.type = "delete"
    /\ entry.status = "moved to quarantine"
    /\ Exists(entry.quarantine)

\* C14: list_recoverable_actions returns exactly the entries of the journal
\* whose status is quarantined: no entry with status error, and no entry
\* that was recovered or purged when the journal is listed again.
C14_ListsOnlyQuarantined ==
    pc = "interactive_menu" =>
        \A i \in 1..Len(log_data) :
            i \in Range(Recoverable(log_data)) <=> Quarantined(log_data[i])

\* the menu step is the call of delete_permanently
PurgeAll == pc = "interactive_menu" /\ last_call' # last_call
                /\ last_call'.op = "delete_permanently"

\* C15: delete_permanently confirmed with the full phrase removes the whole
\* quarantine: afterwards no entry of the journal has a copy in the
\* quarantine, whatever directory its file came from; without the full
\* phrase nothing is removed.
C15_PurgeAllRemovesRoot ==
    [][PurgeAll =>
          IF last_call'.found
          THEN \A i \in 1..Len(log_data) :
                   "quarantine" \in DOMAIN log_data[i]
                       => ~disk'[log_data[i].quarantine].exists
          ELSE disk' = disk]_vars

\* the step on which interactive_menu returns from its loops
MenuReturns == pc \in {"recover", "purge"} /\ pc' = "exit"

\* the entry is back at its original path and not in the quarantine
Restored(d, entry) == d[entry.file].exists /\ ~d[entry.quarantine].exists

\* the entry is nowhere: not at its original path, not in the quarantine
Purged(d, entry) == ~d[entry.file].exists /\ ~d[entry.quarantine].exists

Listed == Range(Recoverable(log_data))

RunEnded == pc \in {"exit", "crashed"} /\ scope # "none"

\* C17: in every cleanup run started from main, when no write of the
\* journal fails, CleanerLogger.finalize has written the journal file
\* exactly once by the time the process ends: not zero times, and not twice
\* when the interrupt arrives while finalize or its recovery menu runs.
C17_JournalWrittenOnce ==
    RunEnded /\ ~log_file.failed => log_file.writes = 1

\* C18: when the write of the journal file fails in CleanerLogger.finalize,
\* the failure is fatal: the process ends with a non-zero exit status.
C18_WriteFailureIsFatal ==
    RunEnded /\ log_file.failed => exit_status # 0

(***************************************************************************)
(* The claim about the deterministic fallback (SpecRun).                   *)
(***************************************************************************)
\* the journal has an action of Executor.delete_file for the file
Deleted(file) == \E i \in 1..Len(actions) : actions[i].file = file

\* the actions of step 5 of deep_cleanup, by their reason
OfUnusedStep(action) == action.details.reason \in {"unused", "old temporary"}

\* C20: in a deep cleanup without the classifier, no member of a suspect
\* duplicate group is handed to delete_file, and step 5 hands an aged file
\* to delete_file only if its extension is in Config.EXTENSIONS_TEMP.
C20_FallbackKeepsAmbiguous ==
    mode = "deep" /\ ~llm_available =>
        /\ \A i \in 1..Len(dup_suspect) :
               \A file \in Range(dup_suspect[i].files) :
                   ~Deleted(file) /\ ~Exists(QPath(file))
        /\ \A i \in 1..Len(actions) :
               OfUnusedStep(actions[i]) =>
                   SuffixLower(actions[i].file.suffix) \in EXTENSIONS_TEMP

\* a deep cleanup without the classifier has gone through its unused files:
\* it had found a suspect group, and has left the aged members of it where
\* they are
C20_Witness ==
    /\ mode = "deep" /\ ~llm_available
    /\ pc = "finalize" /\ scope = "try"
    /\ dup_suspect # <<>>
    /\ \A file \in Range(dup_suspect[1].files) :
           /\ Exists(file)
           /\ disk[file].mtime < Now - DAYS_OLD * SecondsPerDay
           /\ ~Deleted(file)

(***************************************************************************)
(* The shape of the groups of find_dup (SpecDup).                          *)
(***************************************************************************)
\* the bytes of a file: its full digest, MD5 being taken without collisions
Bytes(p) == <<disk[p].head, disk[p].tail>>

ClusterOf(p) ==
    SelectSeq(Scanned(TARGET_DIRS, DupListing), LAMBDA q :
        /\ disk[q].size = disk[p].size
        /\ ~OpenRaises(q)
        /\ fast_hash(q) = fast_hash(p))

\* the entries of the cluster of p that were full-hashed to the digest of p
DigestEqual(p) ==
    SelectSeq(ClusterOf(p), LAMBDA q :
        q \in DOMAIN hash_cache /\ hash_cache[q] = Bytes(p))

\* the groups of a list that hold the file p
GroupsOf(groups, p) ==
    SelectSeq(groups, LAMBDA group : p \in Range(group.files))

\* p is a file above 50 MB in a fast-digest cluster of 2 entries or more
Clustered(p) ==
    /\ Candidate(p)
    /\ ~IsSmall(disk[p].size)
    /\ Len(ClusterOf(p)) >= 2

\* C22: a fast-digest cluster of 2 or more files above 50 MB is handled by
\* its score.  At 0.6 or more its files are full-hashed (those that are
\* still there), a hashed file of it is in a group exactly when its digest
\* is shared by 2 entries or more, the group is then the confirmed group of
\* the entries with that digest, and no file of it is in a suspect group.
\* Below 0.6 the whole cluster is exactly one
\* suspect group carrying the score, and no file of it is full-hashed or in
\* a confirmed group.  Every suspect group scores strictly below 0.6.
C22_ClusterHandledByScore ==
    pc = "done" =>
        /\ \A p \in DOMAIN disk :
               Clustered(p) =>
                   LET cluster  == ClusterOf(p)
                       accuracy_ == calculate_accuracy_fuzzy(cluster)
                   IN  IF FGe(accuracy_, ACCURACY_DUP)
                       THEN /\ GroupsOf(dup_suspect, p) = <<>>
                            /\ \A q \in Range(cluster) :
                                   q \in DOMAIN hash_cache <=> disk[q].lasts
                            /\ IF disk[p].lasts /\ Len(DigestEqual(p)) >= 2
                               THEN GroupsOf(dup_confirmed, p) =
                                        <<Group(DigestEqual(p), disk[p].size,
                                                FromInt(1), "confirmed")>>
                               ELSE GroupsOf(dup_confirmed, p) = <<>>
                       ELSE /\ GroupsOf(dup_suspect, p) =
                                   <<Group(cluster, disk[p].size, accuracy_, "suspect")>>
                            /\ GroupsOf(dup_confirmed, p) = <<>>
                            /\ Range(cluster) \cap DOMAIN hash_cache = {}
        /\ \A i \in 1..Len(dup_suspect) :
               /\ ~FGe(dup_suspect[i].accuracy, ACCURACY_DUP)
               /\ ~IsSmall(dup_suspect[i].length)

\* find_dup has met a cluster of three files above 50 MB scoring 0.6 or
\* more: two files of it were confirmed and the third, full-hashed to a
\* digest of its own, was dropped
C22_Witness ==
    /\ pc = "done"
    /\ \E p \in DOMAIN disk :
           /\ Clustered(p)
           /\ Cardinality(Range(ClusterOf(p))) = 3
           /\ p \in DOMAIN hash_cache
           /\ Len(DigestEqual(p)) = 1
           /\ dup_confirmed # <<>>
           /\ dup_suspect = <<>>
(***************************************************************************)
(* The confirmed groups in deep_cleanup (SpecRun).                         *)
(***************************************************************************)
\* the member of a group that deep_cleanup keeps: max(files, key = st_mtime),
\* the first of the latest
MostRecent(files) ==
    files[CHOOSE i \in 1..Len(files) :
              /\ \A j \in 1..Len(files) : disk[files[j]].mtime <= disk[files[i]].mtime
              /\ \A j \in 1..(i - 1) : disk[files[j]].mtime < disk[files[i]].mtime]

\* C23: once find_dup has returned in a deep cleanup, the step over the
\* confirmed groups completes, and in every confirmed group the member
\* modified last is in place and every other member has been handed to
\* Executor.delete_file.
C23_ConfirmedGroupsResolved ==
    \A i \in 1..Len(dup_confirmed) :
        LET files == dup_confirmed[i].files
        IN  /\ pc # "crashed"
            /\ Exists(MostRecent(files))
            /\ \A file \in Range(files) \ {MostRecent(files)} : Deleted(file)
(***************************************************************************)
(* Files that cannot be hashed (SpecDup).                                  *)
(***************************************************************************)
\* a file of the scan that find_dup cannot hash: open() is refused, or the
\* file is deleted while find_dup runs
Unhashable(p) ==
    /\ Exists(p) /\ UnderRoots(p) /\ ~is_in_whitelist(p)
    /\ ~disk[p].readable \/ ~disk[p].lasts

\* C24: when find_dup has returned, a file that could not be hashed is in
\* none of its groups.
C24_UnhashableLeftOut ==
    pc = "done" =>
        \A p \in DOMAIN disk :
            Unhashable(p) =>
                GroupsOf(dup_confirmed, p) = <<>> /\ GroupsOf(dup_suspect, p) = <<>>
(***************************************************************************)
(* What the quarantine and the original paths hold (SpecAgain).            *)
(***************************************************************************)
QuarantinePaths == {QPath(file) : file \in RunPaths}

\* a step of the cleanup, which puts files into the quarantine, as opposed
\* to a step of the recovery menu, which takes them out
CleanupStep == pc \notin {"interactive_menu", "recover", "purge", "exit"}

\* C25: no step of a cleanup changes a file that the quarantine holds: a
\* quarantine move never replaces a copy already there, be it of this run
\* or of an earlier one.
C25_QuarantineNeverOverwritten ==
    [][CleanupStep =>
          \A quarantine \in QuarantinePaths :
              Exists(quarantine) => disk'[quarantine] = disk[quarantine]]_vars
\* the next turn of the recovery loop is for an entry at whose original
\* path there is a file
RecoveryOntoFile == pc = "recover" /\ Exists(log_data[Head(recover)].file)

\* C26: recover_file on an entry whose original path holds a file leaves
\* that file as it is and keeps the quarantine copy.
C26_RecoveryNeverReplaces ==
    [][RecoveryOntoFile =>
          LET entry == log_data[Head(recover)]
          IN  /\ disk'[entry.file] = disk[entry.file]
              /\ disk'[entry.quarantine] = disk[entry.quarantine]]_vars
\* C27: no group returned by find_dup names the same path twice, also when
\* one directory is reached through two entries of TARGET_DIRS.
C27_GroupPathsDistinct ==
    \A i \in 1..Len(dup_confirmed \o dup_suspect) :
        LET files == (dup_confirmed \o dup_suspect)[i].files
        IN  Cardinality(Range(files)) = Len(files)
(***************************************************************************)
(* The reads find_dup makes for the two digests.  A call of fast_hash      *)
(* opens the file and reads its first block; a call of full_hash reads the *)
(* file unless the path is in hash_cache.  A call whose open raises reads  *)
(* nothing.                                                                *)
(***************************************************************************)
\* the files read by the fast_hash calls of the first pass over a bucket
FastHashReadsPass(files) == SelectSeq(files, LAMBDA p : ~OpenRaises(p))

\* the files read by the fast_hash calls of _calculate_accuracy_fuzzy: for
\* each pair fast_hash(file1), then fast_hash(file2) unless the first raised
FastHashReadsScoring(files) ==
    Flatten([i \in 1..Len(files) |->
        Flatten([j \in 1..Len(files) |->
            IF j <= i \/ OpenRaisesLater(files[i]) THEN <<>>
            ELSE IF OpenRaisesLater(files[j]) THEN <<files[i]>>
            ELSE <<files[i], files[j]>>])])

\* the files read for a fast digest by find_dup, one entry per read
FastHashReads(directories, listing) ==
    LET scanned == Scanned(directories, listing)
        keys    == SizeKeys(scanned)
    IN  Flatten([k \in 1..Len(keys) |->
            LET files == BySize(scanned, keys[k])
                clusters == Clusters(files)
            IN  IF Len(files) < 2 \/ IsSmall(keys[k]) THEN <<>>
                ELSE FastHashReadsPass(files) \o
                     Flatten([i \in 1..Len(clusters) |->
                         FastHashReadsScoring(clusters[i])])])

\* the files find_dup calls full_hash with, one entry per call
FullHashCalls(directories, listing) ==
    LET scanned == Scanned(directories, listing)
        keys    == SizeKeys(scanned)
    IN  Flatten([k \in 1..Len(keys) |->
            LET files == BySize(scanned, keys[k])
                clusters == Clusters(files)
            IN  IF Len(files) < 2 THEN <<>>
                ELSE IF IsSmall(keys[k]) THEN files
                ELSE Flatten([i \in 1..Len(clusters) |->
                         IF FGe(calculate_accuracy_fuzzy(clusters[i]), ACCURACY_DUP)
                         THEN clusters[i] ELSE <<>>])])

\* the files read by a sequence of full_hash calls that starts with the
\* paths of cache in hash_cache: a call reads when the path is not cached
\* and the open succeeds, and then the path is cached
RECURSIVE FullHashReads(_, _)
FullHashReads(calls, cache) ==
    IF calls = <<>> THEN <<>>
    ELSE LET p == Head(calls)
         IN  IF p \in cache THEN FullHashReads(Tail(calls), cache)
             ELSE IF OpenRaisesLater(p) THEN FullHashReads(Tail(calls), cache)
             ELSE <<p>> \o FullHashReads(Tail(calls), cache \cup {p})

Occurrences(reads, p) == Len(SelectSeq(reads, LAMBDA q : q = p))

\* C28: in one run of find_dup no file is read more than once for its fast
\* digest, nor more than once for its full digest.
C28_DigestsComputedOnce ==
    pc = "done" =>
        \A p \in DupPaths :
            /\ Occurrences(FastHashReads(TARGET_DIRS, DupListing), p) <= 1
            /\ Occurrences(FullHashReads(FullHashCalls(TARGET_DIRS, DupListing), {}), p) <= 1
====
